---------------------------- MODULE Spec2Model ----------------------------
(***************************************************************************)
(* Model of the Snowplow enriched-event transformer                        *)
(* (event_transformer.go, json_shredder.go).                               *)
(*                                                                         *)
(* Text is a sequence of one-character strings.  A TSV line is a sequence  *)
(* of tokens: a token is a character (Ch) or a whole tab-free JSON text    *)
(* standing for the JSON value it spells (Js).  The library keeps no state *)
(* between calls, so a behaviour is one call of one exported or internal   *)
(* function, and, for Transform, a second run on the same arguments.       *)
(***************************************************************************)
EXTENDS Integers, Sequences, FiniteSets, TLC

VARIABLES
    op, arg, ret,        \* the function called, its arguments, what it returned
    pc,                  \* "idle", "loop" (inside Transform's loop), "done"
    event, knownFields, addGeolocationData,   \* jsonifyGoodEvent's parameters
    idx, out, errs,      \* its loop index (i + 1) and its locals
    invoked,             \* history: the fields whose converter was called
    geoReads,            \* history: the positions the geolocation test indexed
    writes,              \* history: the assignments to out, in order
    prev, runs           \* the result of the first of two runs; the run number

vars == <<op, arg, ret, pc, event, knownFields, addGeolocationData, idx,
          out, errs, invoked, geoReads, writes, prev, runs>>

---------------------------------------------------------------------------
(* Characters and strings                                                  *)

Lowers == <<"a","b","c","d","e","f","g","h","i","j","k","l","m",
            "n","o","p","q","r","s","t","u","v","w","x","y","z">>
Uppers == <<"A","B","C","D","E","F","G","H","I","J","K","L","M",
            "N","O","P","Q","R","S","T","U","V","W","X","Y","Z">>
DigitChars == <<"0","1","2","3","4","5","6","7","8","9">>

Range(s) == {s[i] : i \in DOMAIN s}

IsUpper(c) == c \in Range(Uppers)
IsLower(c) == c \in Range(Lowers)
IsDigit(c) == c \in Range(DigitChars)

\* strings.ToLower on ASCII text
ToLowerChar(c) ==
    IF IsUpper(c) THEN Lowers[CHOOSE i \in DOMAIN Uppers : Uppers[i] = c] ELSE c
ToLower(s) == [i \in 1..Len(s) |-> ToLowerChar(s[i])]

\* strings.Replace(s, ".", "_", -1)
ReplaceDots(s) == [i \in 1..Len(s) |-> IF s[i] = "." THEN "_" ELSE s[i]]

\* strings.Split(s, sep) for a one-character separator: n separators give
\* n+1 fields, the empty string gives one empty field.  Field k lies between
\* the (k-1)-th and the k-th separator.
Split(s, sep) ==
    LET at == SelectSeq([i \in 1..Len(s) |-> i], LAMBDA i : s[i] = sep)
        from(k) == IF k = 1 THEN 1 ELSE at[k - 1] + 1
        to(k) == IF k > Len(at) THEN Len(s) ELSE at[k] - 1
    IN  [k \in 1..(Len(at) + 1) |-> SubSeq(s, from(k), to(k))]

HasPrefix(s, p) == Len(s) >= Len(p) /\ SubSeq(s, 1, Len(p)) = p
DropPrefix(s, p) == SubSeq(s, Len(p) + 1, Len(s))

---------------------------------------------------------------------------
(* json_shredder.go: schema URI grammar and canonical field names          *)

Protocol == <<"i","g","l","u",":">>

\* [a-zA-Z0-9-_.]+ and [a-zA-Z0-9-_]+
NameClass(c) == IsLower(c) \/ IsUpper(c) \/ IsDigit(c) \/ c \in {"-", "_"}
VendorClass(c) == NameClass(c) \/ c = "."

AllNameClass(s) == \A i \in DOMAIN s : NameClass(s[i])
AllVendorClass(s) == \A i \in DOMAIN s : VendorClass(s[i])
AllDigits(s) == \A i \in DOMAIN s : IsDigit(s[i])

\* [1-9][0-9]*
PositiveNumeral(s) == Len(s) >= 1 /\ AllDigits(s) /\ s[1] # "0"
\* (?:0|[1-9][0-9]*)
Numeral(s) == s = <<"0">> \/ PositiveNumeral(s)

\* The regular expression SchemaURI, anchored at both ends.  No character
\* class contains "/", and the version classes contain no "-" but the
\* separators, so the match, when there is one, is the split at "/" and "-".
MatchVersion(s) ==
    LET p == Split(s, "-")
    IN  Len(p) = 3 /\ PositiveNumeral(p[1]) /\ Numeral(p[2]) /\ Numeral(p[3])

SubmatchesOf(uri, p) ==
    IF /\ Len(p) = 4
       /\ Len(p[1]) >= 1 /\ AllVendorClass(p[1])
       /\ Len(p[2]) >= 1 /\ AllNameClass(p[2])
       /\ Len(p[3]) >= 1 /\ AllNameClass(p[3])
       /\ MatchVersion(p[4])
    THEN <<uri, p[1], p[2], p[3], p[4]>>
    ELSE <<>>

\* schemaURIRegex.FindStringSubmatch(uri): <<>> is the nil of no match.
FindStringSubmatch(uri) ==
    IF ~HasPrefix(uri, Protocol) THEN <<>>
    ELSE SubmatchesOf(uri, Split(DropPrefix(uri, Protocol), "/"))

Ok(v) == [ok |-> TRUE, val |-> v]
Err(e) == [ok |-> FALSE, err |-> e]
Panic(why) == [ok |-> FALSE, panic |-> why]
IsPanic(r) == "panic" \in DOMAIN r
IsErr(r) == "err" \in DOMAIN r

\* The two returns of extractSchema; matches[n] of the code is matches[n + 1].
SchemaOf(uri, matches) ==
    IF matches # <<>>
    THEN Ok([Vendor |-> matches[2], Name |-> matches[3],
             Format |-> matches[4], Version |-> matches[5]])
    ELSE Err([kind |-> "SchemaDoesNotConform", uri |-> uri])

extractSchema(uri) == SchemaOf(uri, FindStringSubmatch(uri))

\* regexp "([^A-Z_])([A-Z])" with ReplaceAllString(name, "${1}_${2}"):
\* leftmost, non-overlapping matches, scanned from position i.
RECURSIVE ReplaceAllBoundaries(_, _)
ReplaceAllBoundaries(s, i) ==
    IF i > Len(s) THEN <<>>
    ELSE IF /\ i + 1 <= Len(s)
            /\ ~IsUpper(s[i]) /\ s[i] # "_"
            /\ IsUpper(s[i + 1])
         THEN <<s[i], "_", s[i + 1]>> \o ReplaceAllBoundaries(s, i + 2)
         ELSE <<s[i]>> \o ReplaceAllBoundaries(s, i + 1)

SnakeCaseName(name) == ToLower(ReplaceAllBoundaries(name, 1))

\* The field name with the whole version triple instead of the model.
FieldNameWholeVersion(prefix, schemaDict) ==
    IF ~schemaDict.ok THEN schemaDict
    ELSE Ok(prefix \o <<"_">> \o ToLower(ReplaceDots(schemaDict.val.Vendor))
            \o <<"_">> \o SnakeCaseName(schemaDict.val.Name)
            \o <<"_">> \o schemaDict.val.Version)

\* fixSchema after the call of extractSchema, whose result is schemaDict.
FieldName(prefix, schemaDict) ==
    IF ~schemaDict.ok THEN schemaDict
    ELSE LET snakeCaseOrganization == ToLower(ReplaceDots(schemaDict.val.Vendor))
             snakeCaseName == SnakeCaseName(schemaDict.val.Name)
             model == Split(schemaDict.val.Version, "-")[1]
         IN  Ok(prefix \o <<"_">> \o snakeCaseOrganization \o <<"_">>
                \o snakeCaseName \o <<"_">> \o model)

fixSchema(prefix, schema) == FieldName(prefix, extractSchema(schema))

ContextsPrefix == <<"c","o","n","t","e","x","t","s">>
UnstructPrefix == <<"u","n","s","t","r","u","c","t","_","e","v","e","n","t">>


---------------------------------------------------------------------------
(* encoding/json values and the decoding into the shredder's structs       *)

JNull == [t |-> "null"]
JStr(s) == [t |-> "str", s |-> s]
JNum(n) == [t |-> "num", n |-> n]
JArr(a) == [t |-> "arr", a |-> a]
JObj(f) == [t |-> "obj", f |-> f]

\* A key that is absent leaves the struct field at its zero value, and so
\* does a key whose value is null.
Member(obj, k) == IF k \in DOMAIN obj.f THEN obj.f[k] ELSE JNull

TypeError == Err([kind |-> "json.UnmarshalTypeError"])
SyntaxError == Err([kind |-> "json.SyntaxError"])

\* A string field (Schema string `json:"schema"`)
DecodeString(j) ==
    CASE j.t = "null" -> Ok(<<>>)
      [] j.t = "str" -> Ok(j.s)
      [] OTHER -> TypeError

\* ContextsData and UnstructData: {Schema string; Data interface{}}.  A null in
\* Data decodes to the nil interface, written JNull.
DecodeTagged(j) ==
    CASE j.t = "null" -> Ok([Schema |-> <<>>, Data |-> JNull])
      [] j.t = "obj" ->
            LET s == DecodeString(Member(j, "schema"))
            IN  IF s.ok THEN Ok([Schema |-> s.val, Data |-> Member(j, "data")])
                ELSE s
      [] OTHER -> TypeError

\* Data []ContextsData
DecodeTaggedList(j) ==
    CASE j.t = "null" -> Ok(<<>>)
      [] j.t = "arr" ->
            IF \A i \in DOMAIN j.a : DecodeTagged(j.a[i]).ok
            THEN Ok([i \in 1..Len(j.a) |-> DecodeTagged(j.a[i]).val])
            ELSE TypeError
      [] OTHER -> TypeError

\* Tokens of a line: a character, or a JSON text standing for its value.
Ch(c) == [t |-> "ch", c |-> c]
Js(doc) == [t |-> "json", doc |-> doc]
TAB == Ch("\t")

IsText(value) == \A i \in DOMAIN value : value[i].t = "ch"
Chars(value) == [i \in 1..Len(value) |-> value[i].c]

\* The JSON value a raw field spells: one JSON text and nothing around it.
\* Text over the characters of LineChars is no JSON object, array or null;
\* a decimal numeral is a JSON number, anything else a syntax error.
ParseJSON(value) ==
    IF Len(value) = 1 /\ value[1].t = "json" THEN Ok(value[1].doc)
    ELSE IF Len(value) >= 1 /\ IsText(value) /\ Numeral(Chars(value)) THEN Ok(JNum(0))
    ELSE SyntaxError

ContextsOf(s, d) ==
    IF ~s.ok THEN s ELSE IF ~d.ok THEN d ELSE Ok([Schema |-> s.val, Data |-> d.val])

\* The decoding of a parsed JSON text into a Contexts
DecodeContexts(j) ==
    IF ~j.ok THEN j
    ELSE CASE j.val.t = "null" -> Ok([Schema |-> <<>>, Data |-> <<>>])
           [] j.val.t = "obj" ->
                 ContextsOf(DecodeString(Member(j.val, "schema")),
                            DecodeTaggedList(Member(j.val, "data")))
           [] OTHER -> TypeError

\* json.Unmarshal(data, &contexts) with var contexts Contexts
UnmarshalContexts(value) == DecodeContexts(ParseJSON(value))

UnstructOf(d) == IF d.ok THEN Ok([Data |-> d.val]) ELSE d

\* The decoding of a parsed JSON text into an Unstruct
DecodeUnstruct(j) ==
    IF ~j.ok THEN j
    ELSE CASE j.val.t = "null" -> Ok([Data |-> [Schema |-> <<>>, Data |-> JNull]])
           [] j.val.t = "obj" -> UnstructOf(DecodeTagged(Member(j.val, "data")))
           [] OTHER -> TypeError

\* json.Unmarshal(data, &unstruct) with var unstruct Unstruct
UnmarshalUnstruct(value) == DecodeUnstruct(ParseJSON(value))

---------------------------------------------------------------------------
(* json_shredder.go: parseContexts and parseUnstruct                       *)

EmptyMap == <<>>
GoList(s) == [t |-> "list", v |-> s]

\* All the orders in which a range over a Go map may visit the keys S.
Orderings(S) ==
    {s \in [1..Cardinality(S) -> S] : \A i, j \in DOMAIN s : i # j => s[i] # s[j]}

\* A loop body that keeps only the latest payload of a canonical name.
addContextOverwriting(distinctContexts, schema, innerData) ==
    IF schema \notin DOMAIN distinctContexts
    THEN distinctContexts @@ (schema :> <<innerData>>)
    ELSE [distinctContexts EXCEPT ![schema] = <<innerData>>]

\* The body of the loop over contexts.Data, once the schema is canonicalized.
addContext(distinctContexts, schema, innerData) ==
    IF schema \notin DOMAIN distinctContexts
    THEN distinctContexts @@ (schema :> <<innerData>>)
    ELSE [distinctContexts EXCEPT ![schema] = Append(@, innerData)]

\* The loop over contexts.Data from entry i on (distinctContextsFrom), and its
\* body for entry i once fixSchema has returned `schema` (distinctContextsAt):
\* the first schema that does not canonicalize ends the call with its error.
RECURSIVE distinctContextsFrom(_, _, _)
RECURSIVE distinctContextsAt(_, _, _, _)
distinctContextsAt(data, i, distinctContexts, schema) ==
    IF ~schema.ok THEN schema
    ELSE distinctContextsFrom(data, i + 1,
                              addContext(distinctContexts, schema.val, data[i].Data))

distinctContextsFrom(data, i, distinctContexts) ==
    IF i > Len(data) THEN Ok(distinctContexts)
    ELSE distinctContextsAt(data, i, distinctContexts,
                            fixSchema(ContextsPrefix, data[i].Schema))

\* One pair per entry of the list, its payload alone, in any order: the
\* result of a shredder that does not group.
pairsUngrouped(contexts, d) ==
    IF ~d.ok THEN {d}
    ELSE {Ok([i \in 1..Len(o) |->
               <<fixSchema(ContextsPrefix, contexts.val.Data[o[i]].Schema).val,
                 GoList(<<contexts.val.Data[o[i]].Data>>)>>]) :
            o \in Orderings(DOMAIN contexts.val.Data)}

\* `for k, v := range distinctContexts`: the pairs of the map, in any order.
pairsInAnyOrder(contexts, d) ==
    IF ~d.ok THEN {d}
    ELSE {Ok([i \in 1..Len(o) |-> <<o[i], GoList(d.val[o[i]])>>]) :
            o \in Orderings(DOMAIN d.val)}

\* parseContexts after json.Unmarshal, whose result is `contexts`.
shredContexts(contexts) ==
    IF ~contexts.ok THEN {contexts}
    ELSE pairsInAnyOrder(contexts, distinctContextsFrom(contexts.val.Data, 1, EmptyMap))

\* The results parseContexts can return.
parseContexts(value) == shredContexts(UnmarshalContexts(value))

MissingInnerData == Err([kind |-> "could not extract inner data field"])

UnstructPair(fixedSchema, innerData) ==
    IF ~fixedSchema.ok THEN fixedSchema ELSE Ok(<< <<fixedSchema.val, innerData>> >>)

\* The schema canonicalized before the inner data is looked at.
shredUnstructSchemaFirst(unstruct) ==
    IF ~unstruct.ok THEN unstruct
    ELSE IF ~fixSchema(UnstructPrefix, unstruct.val.Data.Schema).ok
    THEN fixSchema(UnstructPrefix, unstruct.val.Data.Schema)
    ELSE IF unstruct.val.Data.Data = JNull THEN MissingInnerData
    ELSE UnstructPair(fixSchema(UnstructPrefix, unstruct.val.Data.Schema),
                      unstruct.val.Data.Data)

\* parseUnstruct after json.Unmarshal, whose result is `unstruct`.
shredUnstruct(unstruct) ==
    IF ~unstruct.ok THEN unstruct
    ELSE IF unstruct.val.Data.Data = JNull THEN MissingInnerData
    ELSE UnstructPair(fixSchema(UnstructPrefix, unstruct.val.Data.Schema),
                      unstruct.val.Data.Data)

parseUnstruct(value) == shredUnstruct(UnmarshalUnstruct(value))

---------------------------------------------------------------------------
(* event_transformer.go: the converters                                    *)

GoString(v) == [t |-> "string", v |-> v]
GoBool(b) == [t |-> "bool", v |-> b]

DigitVal(c) == (CHOOSE i \in DOMAIN DigitChars : DigitChars[i] = c) - 1

RECURSIVE StripLeadingZeros(_)
StripLeadingZeros(d) ==
    IF Len(d) > 1 /\ d[1] = "0" THEN StripLeadingZeros(Tail(d)) ELSE d
RECURSIVE StripTrailingZeros(_)
StripTrailingZeros(d) ==
    IF Len(d) >= 1 /\ d[Len(d)] = "0"
    THEN StripTrailingZeros(SubSeq(d, 1, Len(d) - 1)) ELSE d

\* a > b for numerals without leading zeros
NumeralGreater(a, b) ==
    \/ Len(a) > Len(b)
    \/ /\ Len(a) = Len(b)
       /\ \E i \in DOMAIN a : /\ DigitVal(a[i]) > DigitVal(b[i])
                              /\ \A j \in 1..(i - 1) : a[j] = b[j]

MaxInt64 == <<"9","2","2","3","3","7","2","0","3","6","8","5","4","7","7","5","8","0","7">>
MinInt64Magnitude ==
    <<"9","2","2","3","3","7","2","0","3","6","8","5","4","7","7","5","8","0","8">>

HasSign(c) == Len(c) >= 1 /\ c[1] \in {"+", "-"}
Unsigned(c) == IF HasSign(c) THEN Tail(c) ELSE c

\* strconv.ParseInt(value, 10, 64)
ParseInt(value) ==
    IF ~IsText(value) THEN Err([kind |-> "strconv.ErrSyntax"])
    ELSE LET c == Chars(value)
             neg == HasSign(c) /\ c[1] = "-"
             d == Unsigned(c)
             m == StripLeadingZeros(d)
         IN  IF Len(d) = 0 \/ ~AllDigits(d) THEN Err([kind |-> "strconv.ErrSyntax"])
             ELSE IF NumeralGreater(m, IF neg THEN MinInt64Magnitude ELSE MaxInt64)
             THEN Err([kind |-> "strconv.ErrRange"])
             ELSE Ok([t |-> "int64", neg |-> neg /\ m # <<"0">>, digits |-> m])

\* strconv.ParseFloat(value, 64) on text over digits, signs and ".": an
\* optional sign, then digits with at most one "." and at least one digit.
\* (Exponents, hexadecimal mantissas, "inf" and "nan" need letters; the
\* letters of LineChars spell none of them.)  The value is the decimal
\* itself, exact for the short numerals of the sample records.
ParseFloat(value) ==
    IF ~IsText(value) THEN Err([kind |-> "strconv.ErrSyntax"])
    ELSE LET c == Chars(value)
             neg == HasSign(c) /\ c[1] = "-"
             p == Split(Unsigned(c), ".")
         IN  IF /\ Len(p) \in {1, 2}
                /\ \A i \in DOMAIN p : AllDigits(p[i])
                /\ \E i \in DOMAIN p : Len(p[i]) >= 1
             THEN Ok([t |-> "float64", neg |-> neg,
                      int |-> StripLeadingZeros(IF p[1] = <<>> THEN <<"0">> ELSE p[1]),
                      frac |-> IF Len(p) = 2 THEN StripTrailingZeros(p[2]) ELSE <<>>])
             ELSE Err([kind |-> "strconv.ErrSyntax"])

RECURSIVE Atoi(_)
Atoi(d) == IF d = <<>> THEN 0 ELSE Atoi(SubSeq(d, 1, Len(d) - 1)) * 10 + DigitVal(d[Len(d)])

IsLeap(year) == year % 4 = 0 /\ (year % 100 # 0 \/ year % 400 = 0)
DaysIn(month, year) ==
    IF month = 2 THEN (IF IsLeap(year) THEN 29 ELSE 28)
    ELSE IF month \in {4, 6, 9, 11} THEN 30 ELSE 31

\* time.Parse("2006-01-02 15:04:05.000", value): year of four digits, month,
\* day, minute and second of two, hour of one or two, "." and three digits,
\* the separators of the layout between them, nothing after.
ParseTime(value) ==
    IF ~IsText(value) THEN Err([kind |-> "time.ParseError"])
    ELSE LET c == Chars(value)
             w == IF Len(c) >= 13 /\ IsDigit(c[13]) THEN 2 ELSE 1
             at(i, n) == SubSeq(c, i, i + n - 1)
             year == Atoi(at(1, 4))
             month == Atoi(at(6, 2))
             day == Atoi(at(9, 2))
             hour == Atoi(at(12, w))
             min == Atoi(at(13 + w, 2))
             sec == Atoi(at(16 + w, 2))
             msec == Atoi(at(19 + w, 3))
         IN  IF /\ Len(c) = 21 + w
                /\ AllDigits(at(1, 4)) /\ c[5] = "-"
                /\ AllDigits(at(6, 2)) /\ c[8] = "-"
                /\ AllDigits(at(9, 2)) /\ c[11] = " "
                /\ AllDigits(at(12, w)) /\ c[12 + w] = ":"
                /\ AllDigits(at(13 + w, 2)) /\ c[15 + w] = ":"
                /\ AllDigits(at(16 + w, 2)) /\ c[18 + w] = "."
                /\ AllDigits(at(19 + w, 3))
                /\ month \in 1..12 /\ day \in 1..DaysIn(month, year)
                /\ hour \in 0..23 /\ min \in 0..59 /\ sec \in 0..59
             THEN Ok([t |-> "time", year |-> year, month |-> month, day |-> day,
                      hour |-> hour, min |-> min, sec |-> sec, msec |-> msec])
             ELSE Err([kind |-> "time.ParseError"])

\* The keys of the map `converters`
converters == {"convertString", "convertInt", "convertFloat", "convertBool",
               "convertTimestamp", "convertUnstruct", "convertContexts"}

One(key, r) == IF r.ok THEN Ok(<< <<key, r.val>> >>) ELSE r

\* converters[name](key, value): the results the call can return.
Convert(name, key, value) ==
    CASE name = "convertString" -> {Ok(<< <<key, GoString(value)>> >>)}
      [] name = "convertInt" -> {One(key, ParseInt(value))}
      [] name = "convertFloat" -> {One(key, ParseFloat(value))}
      [] name = "convertBool" -> {Ok(<< <<key, GoBool(value = <<Ch("1")>>)>> >>)}
      [] name = "convertTimestamp" -> {One(key, ParseTime(value))}
      [] name = "convertUnstruct" -> {parseUnstruct(value)}
      [] name = "convertContexts" -> parseContexts(value)

---------------------------------------------------------------------------
(* event_transformer.go: the field table and Transform                     *)

\* EnrichedEventFieldTypes: <<key, converter>> per column, the key as text.
EnrichedEventFieldTypes == <<
    <<<<"a","p","p","_","i","d">>, "convertString">>,
    <<<<"p","l","a","t","f","o","r","m">>, "convertString">>,
    <<<<"e","t","l","_","t","s","t","a","m","p">>, "convertTimestamp">>,
    <<<<"c","o","l","l","e","c","t","o","r","_","t","s","t","a","m","p">>, "convertTimestamp">>,
    <<<<"d","v","c","e","_","c","r","e","a","t","e","d","_","t","s","t","a","m","p">>, "convertTimestamp">>,
    <<<<"e","v","e","n","t">>, "convertString">>,
    <<<<"e","v","e","n","t","_","i","d">>, "convertString">>,
    <<<<"t","x","n","_","i","d">>, "convertInt">>,
    <<<<"n","a","m","e","_","t","r","a","c","k","e","r">>, "convertString">>,
    <<<<"v","_","t","r","a","c","k","e","r">>, "convertString">>,
    <<<<"v","_","c","o","l","l","e","c","t","o","r">>, "convertString">>,
    <<<<"v","_","e","t","l">>, "convertString">>,
    <<<<"u","s","e","r","_","i","d">>, "convertString">>,
    <<<<"u","s","e","r","_","i","p","a","d","d","r","e","s","s">>, "convertString">>,
    <<<<"u","s","e","r","_","f","i","n","g","e","r","p","r","i","n","t">>, "convertString">>,
    <<<<"d","o","m","a","i","n","_","u","s","e","r","i","d">>, "convertString">>,
    <<<<"d","o","m","a","i","n","_","s","e","s","s","i","o","n","i","d","x">>, "convertInt">>,
    <<<<"n","e","t","w","o","r","k","_","u","s","e","r","i","d">>, "convertString">>,
    <<<<"g","e","o","_","c","o","u","n","t","r","y">>, "convertString">>,
    <<<<"g","e","o","_","r","e","g","i","o","n">>, "convertString">>,
    <<<<"g","e","o","_","c","i","t","y">>, "convertString">>,
    <<<<"g","e","o","_","z","i","p","c","o","d","e">>, "convertString">>,
    <<<<"g","e","o","_","l","a","t","i","t","u","d","e">>, "convertFloat">>,
    <<<<"g","e","o","_","l","o","n","g","i","t","u","d","e">>, "convertFloat">>,
    <<<<"g","e","o","_","r","e","g","i","o","n","_","n","a","m","e">>, "convertString">>,
    <<<<"i","p","_","i","s","p">>, "convertString">>,
    <<<<"i","p","_","o","r","g","a","n","i","z","a","t","i","o","n">>, "convertString">>,
    <<<<"i","p","_","d","o","m","a","i","n">>, "convertString">>,
    <<<<"i","p","_","n","e","t","s","p","e","e","d">>, "convertString">>,
    <<<<"p","a","g","e","_","u","r","l">>, "convertString">>,
    <<<<"p","a","g","e","_","t","i","t","l","e">>, "convertString">>,
    <<<<"p","a","g","e","_","r","e","f","e","r","r","e","r">>, "convertString">>,
    <<<<"p","a","g","e","_","u","r","l","s","c","h","e","m","e">>, "convertString">>,
    <<<<"p","a","g","e","_","u","r","l","h","o","s","t">>, "convertString">>,
    <<<<"p","a","g","e","_","u","r","l","p","o","r","t">>, "convertInt">>,
    <<<<"p","a","g","e","_","u","r","l","p","a","t","h">>, "convertString">>,
    <<<<"p","a","g","e","_","u","r","l","q","u","e","r","y">>, "convertString">>,
    <<<<"p","a","g","e","_","u","r","l","f","r","a","g","m","e","n","t">>, "convertString">>,
    <<<<"r","e","f","r","_","u","r","l","s","c","h","e","m","e">>, "convertString">>,
    <<<<"r","e","f","r","_","u","r","l","h","o","s","t">>, "convertString">>,
    <<<<"r","e","f","r","_","u","r","l","p","o","r","t">>, "convertInt">>,
    <<<<"r","e","f","r","_","u","r","l","p","a","t","h">>, "convertString">>,
    <<<<"r","e","f","r","_","u","r","l","q","u","e","r","y">>, "convertString">>,
    <<<<"r","e","f","r","_","u","r","l","f","r","a","g","m","e","n","t">>, "convertString">>,
    <<<<"r","e","f","r","_","m","e","d","i","u","m">>, "convertString">>,
    <<<<"r","e","f","r","_","s","o","u","r","c","e">>, "convertString">>,
    <<<<"r","e","f","r","_","t","e","r","m">>, "convertString">>,
    <<<<"m","k","t","_","m","e","d","i","u","m">>, "convertString">>,
    <<<<"m","k","t","_","s","o","u","r","c","e">>, "convertString">>,
    <<<<"m","k","t","_","t","e","r","m">>, "convertString">>,
    <<<<"m","k","t","_","c","o","n","t","e","n","t">>, "convertString">>,
    <<<<"m","k","t","_","c","a","m","p","a","i","g","n">>, "convertString">>,
    <<<<"c","o","n","t","e","x","t","s">>, "convertContexts">>,
    <<<<"s","e","_","c","a","t","e","g","o","r","y">>, "convertString">>,
    <<<<"s","e","_","a","c","t","i","o","n">>, "convertString">>,
    <<<<"s","e","_","l","a","b","e","l">>, "convertString">>,
    <<<<"s","e","_","p","r","o","p","e","r","t","y">>, "convertString">>,
    <<<<"s","e","_","v","a","l","u","e">>, "convertString">>,
    <<<<"u","n","s","t","r","u","c","t","_","e","v","e","n","t">>, "convertUnstruct">>,
    <<<<"t","r","_","o","r","d","e","r","i","d">>, "convertString">>,
    <<<<"t","r","_","a","f","f","i","l","i","a","t","i","o","n">>, "convertString">>,
    <<<<"t","r","_","t","o","t","a","l">>, "convertFloat">>,
    <<<<"t","r","_","t","a","x">>, "convertFloat">>,
    <<<<"t","r","_","s","h","i","p","p","i","n","g">>, "convertFloat">>,
    <<<<"t","r","_","c","i","t","y">>, "convertString">>,
    <<<<"t","r","_","s","t","a","t","e">>, "convertString">>,
    <<<<"t","r","_","c","o","u","n","t","r","y">>, "convertString">>,
    <<<<"t","i","_","o","r","d","e","r","i","d">>, "convertString">>,
    <<<<"t","i","_","s","k","u">>, "convertString">>,
    <<<<"t","i","_","n","a","m","e">>, "convertString">>,
    <<<<"t","i","_","c","a","t","e","g","o","r","y">>, "convertString">>,
    <<<<"t","i","_","p","r","i","c","e">>, "convertFloat">>,
    <<<<"t","i","_","q","u","a","n","t","i","t","y">>, "convertInt">>,
    <<<<"p","p","_","x","o","f","f","s","e","t","_","m","i","n">>, "convertInt">>,
    <<<<"p","p","_","x","o","f","f","s","e","t","_","m","a","x">>, "convertInt">>,
    <<<<"p","p","_","y","o","f","f","s","e","t","_","m","i","n">>, "convertInt">>,
    <<<<"p","p","_","y","o","f","f","s","e","t","_","m","a","x">>, "convertInt">>,
    <<<<"u","s","e","r","a","g","e","n","t">>, "convertString">>,
    <<<<"b","r","_","n","a","m","e">>, "convertString">>,
    <<<<"b","r","_","f","a","m","i","l","y">>, "convertString">>,
    <<<<"b","r","_","v","e","r","s","i","o","n">>, "convertString">>,
    <<<<"b","r","_","t","y","p","e">>, "convertString">>,
    <<<<"b","r","_","r","e","n","d","e","r","e","n","g","i","n","e">>, "convertString">>,
    <<<<"b","r","_","l","a","n","g">>, "convertString">>,
    <<<<"b","r","_","f","e","a","t","u","r","e","s","_","p","d","f">>, "convertBool">>,
    <<<<"b","r","_","f","e","a","t","u","r","e","s","_","f","l","a","s","h">>, "convertBool">>,
    <<<<"b","r","_","f","e","a","t","u","r","e","s","_","j","a","v","a">>, "convertBool">>,
    <<<<"b","r","_","f","e","a","t","u","r","e","s","_","d","i","r","e","c","t","o","r">>, "convertBool">>,
    <<<<"b","r","_","f","e","a","t","u","r","e","s","_","q","u","i","c","k","t","i","m","e">>, "convertBool">>,
    <<<<"b","r","_","f","e","a","t","u","r","e","s","_","r","e","a","l","p","l","a","y","e","r">>, "convertBool">>,
    <<<<"b","r","_","f","e","a","t","u","r","e","s","_","w","i","n","d","o","w","s","m","e","d","i","a">>, "convertBool">>,
    <<<<"b","r","_","f","e","a","t","u","r","e","s","_","g","e","a","r","s">>, "convertBool">>,
    <<<<"b","r","_","f","e","a","t","u","r","e","s","_","s","i","l","v","e","r","l","i","g","h","t">>, "convertBool">>,
    <<<<"b","r","_","c","o","o","k","i","e","s">>, "convertBool">>,
    <<<<"b","r","_","c","o","l","o","r","d","e","p","t","h">>, "convertString">>,
    <<<<"b","r","_","v","i","e","w","w","i","d","t","h">>, "convertInt">>,
    <<<<"b","r","_","v","i","e","w","h","e","i","g","h","t">>, "convertInt">>,
    <<<<"o","s","_","n","a","m","e">>, "convertString">>,
    <<<<"o","s","_","f","a","m","i","l","y">>, "convertString">>,
    <<<<"o","s","_","m","a","n","u","f","a","c","t","u","r","e","r">>, "convertString">>,
    <<<<"o","s","_","t","i","m","e","z","o","n","e">>, "convertString">>,
    <<<<"d","v","c","e","_","t","y","p","e">>, "convertString">>,
    <<<<"d","v","c","e","_","i","s","m","o","b","i","l","e">>, "convertBool">>,
    <<<<"d","v","c","e","_","s","c","r","e","e","n","w","i","d","t","h">>, "convertInt">>,
    <<<<"d","v","c","e","_","s","c","r","e","e","n","h","e","i","g","h","t">>, "convertInt">>,
    <<<<"d","o","c","_","c","h","a","r","s","e","t">>, "convertString">>,
    <<<<"d","o","c","_","w","i","d","t","h">>, "convertInt">>,
    <<<<"d","o","c","_","h","e","i","g","h","t">>, "convertInt">>,
    <<<<"t","r","_","c","u","r","r","e","n","c","y">>, "convertString">>,
    <<<<"t","r","_","t","o","t","a","l","_","b","a","s","e">>, "convertFloat">>,
    <<<<"t","r","_","t","a","x","_","b","a","s","e">>, "convertFloat">>,
    <<<<"t","r","_","s","h","i","p","p","i","n","g","_","b","a","s","e">>, "convertFloat">>,
    <<<<"t","i","_","c","u","r","r","e","n","c","y">>, "convertString">>,
    <<<<"t","i","_","p","r","i","c","e","_","b","a","s","e">>, "convertFloat">>,
    <<<<"b","a","s","e","_","c","u","r","r","e","n","c","y">>, "convertString">>,
    <<<<"g","e","o","_","t","i","m","e","z","o","n","e">>, "convertString">>,
    <<<<"m","k","t","_","c","l","i","c","k","i","d">>, "convertString">>,
    <<<<"m","k","t","_","n","e","t","w","o","r","k">>, "convertString">>,
    <<<<"e","t","l","_","t","a","g","s">>, "convertString">>,
    <<<<"d","v","c","e","_","s","e","n","t","_","t","s","t","a","m","p">>, "convertTimestamp">>,
    <<<<"r","e","f","r","_","d","o","m","a","i","n","_","u","s","e","r","i","d">>, "convertString">>,
    <<<<"r","e","f","r","_","d","e","v","i","c","e","_","t","s","t","a","m","p">>, "convertTimestamp">>,
    <<<<"d","e","r","i","v","e","d","_","c","o","n","t","e","x","t","s">>, "convertContexts">>,
    <<<<"d","o","m","a","i","n","_","s","e","s","s","i","o","n","i","d">>, "convertString">>,
    <<<<"d","e","r","i","v","e","d","_","t","s","t","a","m","p">>, "convertTimestamp">>,
    <<<<"e","v","e","n","t","_","v","e","n","d","o","r">>, "convertString">>,
    <<<<"e","v","e","n","t","_","n","a","m","e">>, "convertString">>,
    <<<<"e","v","e","n","t","_","f","o","r","m","a","t">>, "convertString">>,
    <<<<"e","v","e","n","t","_","v","e","r","s","i","o","n">>, "convertString">>,
    <<<<"e","v","e","n","t","_","f","i","n","g","e","r","p","r","i","n","t">>, "convertString">>,
    <<<<"t","r","u","e","_","t","s","t","a","m","p">>, "convertTimestamp">>
  >>
LatitudeIndex == 22
LongitudeIndex == 23

GeoLocationKey == <<"g","e","o","_","l","o","c","a","t","i","o","n">>

NoRet == [ok |-> FALSE, pending |-> TRUE]
NoArg == [none |-> TRUE]

FieldCountError(expected, received) ==
    Err([kind |-> "FieldCount", expected |-> expected, received |-> received])
IndexOutOfRange == Panic("index out of range")
NilFuncCall == Panic("call of nil func")

\* A write that keeps the value a key already has.
WriteKeepFirst(m, k, v) ==
    [x \in (DOMAIN m) \cup {k} |-> IF x \in DOMAIN m THEN m[x] ELSE v]

\* out[k] = v
Write(m, k, v) == [x \in (DOMAIN m) \cup {k} |-> IF x = k THEN v ELSE m[x]]

\* for _, v := range ok { out[v[0].(string)] = v[1] }
RECURSIVE WriteAll(_, _)
WriteAll(m, pairs) ==
    IF pairs = <<>> THEN m
    ELSE WriteAll(Write(m, Head(pairs)[1], Head(pairs)[2]), Tail(pairs))

\* A geolocation statement that tests the latitude alone and writes
\* "<lat>,<lon>" whenever it is non-empty.
GeoStepLatitudeOnly(ev, flag) ==
    IF ~flag THEN [panic |-> FALSE, reads |-> {}, out |-> EmptyMap]
    ELSE IF Len(ev) <= LatitudeIndex
    THEN [panic |-> TRUE, reads |-> {LatitudeIndex}, out |-> EmptyMap]
    ELSE IF ev[LatitudeIndex + 1] = <<>>
    THEN [panic |-> FALSE, reads |-> {LatitudeIndex}, out |-> EmptyMap]
    ELSE IF Len(ev) <= LongitudeIndex
    THEN [panic |-> TRUE, reads |-> {LatitudeIndex, LongitudeIndex}, out |-> EmptyMap]
    ELSE [panic |-> FALSE, reads |-> {LatitudeIndex, LongitudeIndex},
          out |-> [k \in {GeoLocationKey} |->
                     GoString(ev[LatitudeIndex + 1] \o <<Ch(",")>>
                              \o ev[LongitudeIndex + 1])]]

\* The condition and body of the geolocation statement; indexes are the Go
\* ones, so field n is ev[n + 1].  `reads` are the positions the condition
\* has indexed, by short-circuit evaluation from left to right.
GeoStep(ev, flag) ==
    IF ~flag THEN [panic |-> FALSE, reads |-> {}, out |-> EmptyMap]
    ELSE IF Len(ev) <= LatitudeIndex
    THEN [panic |-> TRUE, reads |-> {LatitudeIndex}, out |-> EmptyMap]
    ELSE IF ev[LatitudeIndex + 1] = <<>>
    THEN [panic |-> FALSE, reads |-> {LatitudeIndex}, out |-> EmptyMap]
    ELSE IF Len(ev) <= LongitudeIndex
    THEN [panic |-> TRUE, reads |-> {LatitudeIndex, LongitudeIndex}, out |-> EmptyMap]
    ELSE IF ev[LongitudeIndex + 1] = <<>>
    THEN [panic |-> FALSE, reads |-> {LatitudeIndex, LongitudeIndex}, out |-> EmptyMap]
    ELSE [panic |-> FALSE, reads |-> {LatitudeIndex, LongitudeIndex},
          out |-> Write(EmptyMap, GeoLocationKey,
                        GoString(ev[LatitudeIndex + 1] \o <<Ch(",")>>
                                 \o ev[LongitudeIndex + 1]))]

\* fmt.Sprintf("unexpected exception parsing field with key %s and value %s: %s", ...)
FieldError(k, value, err) == [key |-> k, value |-> value, err |-> err]
\* errors.New(strings.Join(errs, ", "))
JoinedError(messages) == Err([kind |-> "Joined", messages |-> messages])

\* A count test that lets records with spare fields through.
CountMismatchWhenFewer(ev, fields) == Len(ev) < Len(fields)

\* if len(event) != len(knownFields)
CountMismatch(ev, fields) == Len(ev) # Len(fields)

WriteOf(i, pair) == [field |-> i, key |-> pair[1], val |-> pair[2]]

\* Transform up to the loop: the split, the count check, the geolocation.
jsonifyGoodEventEnter(line, fields, flag) ==
    LET ev == Split(line, TAB)
        geo == GeoStep(ev, flag)
    IN  /\ event' = ev
        /\ knownFields' = fields
        /\ addGeolocationData' = flag
        /\ idx' = 1
        /\ errs' = <<>>
        /\ invoked' = <<>>
        /\ IF CountMismatch(ev, fields)
           THEN /\ ret' = FieldCountError(Len(fields), Len(ev))
                /\ pc' = "done"
                /\ out' = EmptyMap
                /\ geoReads' = {}
                /\ writes' = <<>>
           ELSE /\ geoReads' = geo.reads
                /\ out' = geo.out
                /\ writes' = [k \in 1..Cardinality(DOMAIN geo.out) |->
                                WriteOf(0, <<GeoLocationKey, geo.out[GeoLocationKey]>>)]
                /\ ret' = IF geo.panic THEN IndexOutOfRange ELSE NoRet
                /\ pc' = IF geo.panic THEN "done" ELSE "loop"

\* A field that is never skipped, whatever its value.
FieldIsSkippedNever(value) == FALSE

\* if event[i] != "" { ... }: the field is skipped when this is false.
FieldIsSkipped(value) == value = <<>>

\* One iteration of `for i, t := range knownFields`.
jsonifyGoodEventField ==
    /\ pc = "loop"
    /\ idx <= Len(knownFields)
    /\ LET t == knownFields[idx]
       IN  IF Len(t) < 1
           THEN /\ pc' = "done"
                /\ ret' = IndexOutOfRange
                /\ UNCHANGED <<idx, out, errs, invoked, writes>>
           ELSE IF FieldIsSkipped(event[idx])
           THEN /\ idx' = idx + 1
                /\ UNCHANGED <<pc, ret, out, errs, invoked, writes>>
           ELSE IF Len(t) < 2
           THEN /\ pc' = "done"
                /\ ret' = IndexOutOfRange
                /\ UNCHANGED <<idx, out, errs, invoked, writes>>
           ELSE IF t[2] \notin converters
           THEN /\ pc' = "done"
                /\ ret' = NilFuncCall
                /\ UNCHANGED <<idx, out, errs, invoked, writes>>
           ELSE \E r \in Convert(t[2], t[1], event[idx]) :
                  /\ invoked' = Append(invoked, idx)
                  /\ idx' = idx + 1
                  /\ IF r.ok
                     THEN /\ out' = WriteAll(out, r.val)
                          /\ writes' = writes \o [k \in 1..Len(r.val) |->
                                                    WriteOf(idx, r.val[k])]
                          /\ errs' = errs
                     ELSE /\ errs' = Append(errs, FieldError(t[1], event[idx], r.err))
                          /\ UNCHANGED <<out, writes>>
                  /\ UNCHANGED <<pc, ret>>
    /\ UNCHANGED <<op, arg, event, knownFields, addGeolocationData, geoReads,
                   prev, runs>>

\* After the loop: the joined error, or the mapping.
jsonifyGoodEventReturn ==
    /\ pc = "loop"
    /\ idx > Len(knownFields)
    /\ pc' = "done"
    /\ ret' = IF Len(errs) > 0 THEN JoinedError(errs) ELSE Ok(out)
    /\ UNCHANGED <<op, arg, event, knownFields, addGeolocationData, idx, out,
                   errs, invoked, geoReads, writes, prev, runs>>

---------------------------------------------------------------------------
(* Arguments of the calls                                                  *)

MaxNameLen == 4
MaxCtxEntries == 3
MaxFields == 2
MaxLineLen == 3

SeqsUpTo(S, n) == UNION {[1..k -> S] : k \in 0..n}

\* strings.Join(parts, sep) for a one-element separator
RECURSIVE Join(_, _)
Join(parts, sep) ==
    IF parts = <<>> THEN <<>>
    ELSE IF Len(parts) = 1 THEN parts[1]
    ELSE Join(SubSeq(parts, 1, Len(parts) \div 2), sep) \o <<sep>>
           \o Join(SubSeq(parts, Len(parts) \div 2 + 1, Len(parts)), sep)

Tokens(chars) == [i \in 1..Len(chars) |-> Ch(chars[i])]

VendorA == <<"c",".","A">>
NameAB == <<"a","B">>
NameB == <<"b">>
FormatJ == <<"j">>

Uri(proto, vendor, name, format, version) ==
    proto \o Join(<<vendor, name, format, Join(version, "-")>>, "/")

NameAlphabet == {"a", "B", "C", "_", "1"}
SampleNames == SeqsUpTo(NameAlphabet, MaxNameLen)
OddNames == {NameAB, <<"a",".","b">>, <<"a","-","B","B","c","D">>}
SampleVendors == {VendorA, <<"X","-","y",".","Z","9">>, <<>>, <<"c","/","d">>,
                  <<"c","!">>}
SampleFormats == {FormatJ, <<>>, <<"j","+">>}
SampleProtocols == {Protocol, <<"i","g","l","u">>, <<"I","g","l","u",":">>}
SamplePrefixes == {ContextsPrefix, UnstructPrefix}
SampleVersions ==
    {<<m, r, a>> : m \in {<<"1">>, <<"1","0">>, <<"0">>, <<"0","1">>, <<>>},
                   r \in {<<"0">>, <<"2">>, <<"0","0">>, <<"0","1">>},
                   a \in {<<"0">>, <<"7">>, <<"0","7">>}}
      \cup {<< <<"1">>, <<"0">> >>, << <<"1">>, <<"0">>, <<"0">>, <<"0">> >>,
            << <<"1">> >>, << <<"1">>, <<"x">>, <<"0">> >>}
GoodVersions == {<< <<"1">>, <<"0">>, <<"0">> >>, << <<"1","0">>, <<"2">>, <<"7">> >>}

FixSchemaInput(prefix, proto, vendor, name, format, version) ==
    [prefix |-> prefix, proto |-> proto, vendor |-> vendor, name |-> name,
     format |-> format, version |-> version,
     uri |-> Uri(proto, vendor, name, format, version)]

FixSchemaInputs ==
    {FixSchemaInput(x, Protocol, VendorA, n, FormatJ, v) :
        x \in SamplePrefixes, n \in SampleNames, v \in GoodVersions}
      \cup {FixSchemaInput(ContextsPrefix, p, w, n, f, v) :
              p \in SampleProtocols, w \in SampleVendors, n \in OddNames,
              f \in SampleFormats, v \in SampleVersions}

Version100 == << <<"1">>, <<"0">>, <<"0">> >>
Version101 == << <<"1">>, <<"0">>, <<"1">> >>
SchemaA0 == Uri(Protocol, VendorA, NameAB, FormatJ, Version100)
SchemaA1 == Uri(Protocol, VendorA, NameAB, FormatJ, Version101)
SchemaB == Uri(Protocol, VendorA, NameB, FormatJ, Version100)
SchemaBad == <<"x">>
SchemaEnvelope == Uri(Protocol, VendorA, <<"c","o","n","t","e","x","t","s">>, FormatJ,
                      Version100)

Tagged(schema, data) == JObj([schema |-> JStr(schema), data |-> data])
Envelope(list) == JObj([schema |-> JStr(SchemaEnvelope), data |-> JArr(list)])

CtxEntries == {Tagged(SchemaA0, JNum(1)), Tagged(SchemaA1, JNum(2)),
               Tagged(SchemaB, JNum(3)), Tagged(SchemaBad, JNum(4)),
               Tagged(SchemaA0, JNull)}

ContextsDocs ==
    {Envelope(l) : l \in SeqsUpTo(CtxEntries, MaxCtxEntries)}
      \cup {JNull, JObj([schema |-> JStr(SchemaEnvelope)]), JObj([data |-> JNull]),
            JObj([data |-> JNum(1)]), JArr(<<>>), Envelope(<<JNum(1)>>),
            Envelope(<<JNull>>), JObj([schema |-> JNum(1), data |-> JArr(<<>>)]),
            JObj([data |-> JArr(<<JObj([data |-> JNum(1)])>>)])}

ParseContextsInputs ==
    {<<Js(d)>> : d \in ContextsDocs}
      \cup {<<>>, <<Ch("x")>>, <<Ch("1")>>, <<Js(JNull), Ch("1")>>}

Payloads == {JNum(0), JNum(5), JStr(<<>>), JObj([k |-> JNum(1)]), JArr(<<>>)}
InnerObjects ==
    {[schema |-> JStr(s), data |-> d] : s \in {SchemaA0, SchemaBad},
                                         d \in Payloads \cup {JNull}}
      \cup {[schema |-> JStr(s)] : s \in {SchemaA0, SchemaBad}}
      \cup {[data |-> d] : d \in Payloads \cup {JNull}}
      \cup {[schema |-> JNum(1), data |-> JNum(5)], [schema |-> JNull]}

UnstructDocs ==
    {JObj([data |-> JObj(i)]) : i \in InnerObjects}
      \cup {JObj([data |-> JObj(i), schema |-> JStr(SchemaA0)]) : i \in InnerObjects}
      \cup {JNull, JObj(<<>>), JObj([data |-> JNull]), JObj([data |-> JNum(1)]),
            JObj([data |-> JObj(<<>>)]), JArr(<<>>), JNum(1)}

ParseUnstructInputs ==
    {<<Js(d)>> : d \in UnstructDocs} \cup {<<>>, <<Ch("x")>>, <<Ch("1")>>}

KeyX == <<"x">>
KeyY == <<"y">>
KeyC == <<"c">>

\* Entries of a field definition, one of them naming no converter of the
\* registry.
SmallEntries == {<<KeyX, "convertString">>, <<KeyX, "convertInt">>,
                 <<KeyY, "convertNothing">>, <<KeyC, "convertContexts">>,
                 <<GeoLocationKey, "convertString">>}

DocAB == Envelope(<<Tagged(SchemaA0, JNum(1)), Tagged(SchemaB, JNum(3)),
                    Tagged(SchemaA1, JNum(2))>>)
DocA == Envelope(<<Tagged(SchemaA1, JNum(9))>>)
DocBad == Envelope(<<Tagged(SchemaA0, JNum(1)), Tagged(SchemaBad, JNum(4))>>)
DocUnstruct == JObj([data |-> JObj([schema |-> JStr(SchemaA0), data |-> JNum(5)])])
DocUnstructNoData == JObj([data |-> JObj([schema |-> JStr(SchemaA0)])])

\* Characters of the sample lines, beside the tab
LineChars == {"1", "x", "2", ".", "5", "0", "9", "-", ":", " "}
SmallTokens == {TAB, Ch("1"), Ch("x"), Js(DocAB)}
SmallLines == SeqsUpTo(SmallTokens, MaxLineLen)
SmallFields == SeqsUpTo(SmallEntries, MaxFields)

FieldIndex(key) ==
    CHOOSE i \in DOMAIN EnrichedEventFieldTypes : EnrichedEventFieldTypes[i][1] = key

\* The first 23 and 24 entries of the table: up to geo_latitude, geo_longitude
Fields23 == SubSeq(EnrichedEventFieldTypes, 1, LongitudeIndex)
Fields24 == SubSeq(EnrichedEventFieldTypes, 1, LongitudeIndex + 1)
Fields24Keyed == [Fields24 EXCEPT ![2] = <<GeoLocationKey, "convertString">>]

Record(n, overrides) ==
    [i \in 1..n |-> IF i \in DOMAIN overrides THEN overrides[i] ELSE <<>>]
Line(record) == Join(record, TAB)

TimeGood == Tokens(<<"2","0","1","9","-","0","2","-","2","0"," ","1","0",":","0","5",
                     ":","0","0",".","0","0","0">>)
TimeBad == Tokens(<<"2","0","1","9","-","0","2","-","2","9"," ","1","0",":","0","5",
                    ":","0","0",".","0","0","0">>)

LatitudeChoices == {<<>>, Tokens(<<"1",".","5">>), Tokens(<<"x">>)}
LongitudeChoices == {<<>>, Tokens(<<"2">>)}

Lines23 ==
    {Line(Record(LongitudeIndex, (LatitudeIndex + 1) :> lat)) : lat \in LatitudeChoices}
Lines24 ==
    {Line(Record(LongitudeIndex + 1,
                 (1 :> a) @@ (2 :> b) @@ (8 :> n) @@ ((LatitudeIndex + 1) :> lat)
                   @@ ((LongitudeIndex + 1) :> lon))) :
        a \in {<<>>, Tokens(<<"x">>)}, b \in {<<>>, Tokens(<<"1">>)},
        n \in {<<>>, Tokens(<<"1">>), Tokens(<<"x">>)},
        lat \in LatitudeChoices, lon \in LongitudeChoices}

ContextsColumn == FieldIndex(ContextsPrefix)
DerivedContextsColumn ==
    FieldIndex(<<"d","e","r","i","v","e","d","_">> \o ContextsPrefix)
UnstructColumn == FieldIndex(UnstructPrefix)
TxnIdColumn == FieldIndex(<<"t","x","n","_","i","d">>)
EtlTstampColumn == FieldIndex(<<"e","t","l","_","t","s","t","a","m","p">>)
CookiesColumn == FieldIndex(<<"b","r","_","c","o","o","k","i","e","s">>)

LinesFull ==
    {Line(Record(Len(EnrichedEventFieldTypes),
                 (ContextsColumn :> c) @@ (DerivedContextsColumn :> d)
                   @@ ((LatitudeIndex + 1) :> g) @@ ((LongitudeIndex + 1) :> g)
                   @@ (CookiesColumn :> Tokens(<<"1">>)))) :
        c \in {<<>>, <<Js(DocAB)>>, <<Js(DocBad)>>}, d \in {<<>>, <<Js(DocA)>>},
        g \in {<<>>, Tokens(<<"2">>)}}
      \cup {Line(Record(Len(EnrichedEventFieldTypes),
                 (UnstructColumn :> u) @@ (TxnIdColumn :> n) @@ (EtlTstampColumn :> t))) :
              u \in {<<>>, <<Js(DocUnstruct)>>, <<Js(DocUnstructNoData)>>},
              n \in {<<>>, Tokens(<<"-","0","5">>), Tokens(<<"1",".","5">>)},
              t \in {<<>>, TimeGood, TimeBad}}

Lines == SmallLines \cup Lines23 \cup Lines24 \cup LinesFull
KnownFieldsChoices ==
    SmallFields \cup {Fields23, Fields24, Fields24Keyed, EnrichedEventFieldTypes}

---------------------------------------------------------------------------
(* The calls                                                               *)

Init ==
    /\ op = "none"
    /\ arg = NoArg
    /\ ret = NoRet
    /\ pc = "idle"
    /\ event = <<>>
    /\ knownFields = <<>>
    /\ addGeolocationData = FALSE
    /\ idx = 1
    /\ out = EmptyMap
    /\ errs = <<>>
    /\ invoked = <<>>
    /\ geoReads = {}
    /\ writes = <<>>
    /\ prev = <<>>
    /\ runs = 0

CallFixSchema ==
    /\ pc = "idle"
    /\ \E in \in FixSchemaInputs :
          /\ arg' = in
          /\ ret' = fixSchema(in.prefix, in.uri)
    /\ op' = "fixSchema"
    /\ pc' = "done"
    /\ UNCHANGED <<event, knownFields, addGeolocationData, idx, out, errs, invoked,
                   geoReads, writes, prev, runs>>

CallParseContexts ==
    /\ pc = "idle"
    /\ \E in \in ParseContextsInputs :
          /\ arg' = in
          /\ ret' \in parseContexts(in)
    /\ op' = "parseContexts"
    /\ pc' = "done"
    /\ UNCHANGED <<event, knownFields, addGeolocationData, idx, out, errs, invoked,
                   geoReads, writes, prev, runs>>

CallParseUnstruct ==
    /\ pc = "idle"
    /\ \E in \in ParseUnstructInputs :
          /\ arg' = in
          /\ ret' = parseUnstruct(in)
    /\ op' = "parseUnstruct"
    /\ pc' = "done"
    /\ UNCHANGED <<event, knownFields, addGeolocationData, idx, out, errs, invoked,
                   geoReads, writes, prev, runs>>

\* Transform(line, knownFields, addGeolocationData)
Transform ==
    /\ pc = "idle"
    /\ \E line \in Lines, fields \in KnownFieldsChoices, flag \in BOOLEAN :
          /\ arg' = [line |-> line, knownFields |-> fields, flag |-> flag]
          /\ jsonifyGoodEventEnter(line, fields, flag)
    /\ op' = "Transform"
    /\ prev' = <<>>
    /\ runs' = 1

\* A second call of Transform with the arguments of the first.
TransformAgain ==
    /\ pc = "done"
    /\ op = "Transform"
    /\ runs = 1
    /\ jsonifyGoodEventEnter(arg.line, arg.knownFields, arg.flag)
    /\ prev' = <<ret>>
    /\ runs' = 2
    /\ UNCHANGED <<op, arg>>

Next ==
    \/ CallFixSchema
    \/ CallParseContexts
    \/ CallParseUnstruct
    \/ Transform
    \/ TransformAgain
    \/ jsonifyGoodEventField
    \/ jsonifyGoodEventReturn

Spec == Init /\ [][Next]_vars

---------------------------------------------------------------------------
(* Properties of Transform                                                 *)

\* The number of tab-separated fields of a line, counted from its tabs.
NumFields(line) == Cardinality({i \in DOMAIN line : line[i] = TAB}) + 1

InTransform == op = "Transform"
Returned == op = "Transform" /\ pc = "done"
CountsMatch == NumFields(arg.line) = Len(arg.knownFields)

\* C1: when the line has another number of tab-separated fields than the
\* definition has entries, Transform returns the error carrying both counts and
\* no mapping, and has by then called no converter, indexed neither the
\* latitude nor the longitude position, and written nothing.
C1_CountMismatchFails ==
    (InTransform /\ ~CountsMatch) =>
        /\ pc = "done"
        /\ ret = Err([kind |-> "FieldCount", expected |-> Len(arg.knownFields),
                      received |-> NumFields(arg.line)])
        /\ invoked = <<>>
        /\ geoReads = {}
        /\ writes = <<>>

\* A mismatch on a record of 24 fields, the flag set, against two entries.
C1_Witness ==
    /\ Returned
    /\ arg.flag
    /\ NumFields(arg.line) = LongitudeIndex + 1
    /\ Len(arg.knownFields) = 2
    /\ IsErr(ret)
    /\ ret.err.expected = 2 /\ ret.err.received = LongitudeIndex + 1

\* C2: in a record whose count matches, a field whose raw value is empty has
\* no converter call, no write to the mapping and no message in the error
\* list, whatever its converter.
C2_EmptyFieldsSkipped ==
    (InTransform /\ CountsMatch) =>
        /\ \A i \in DOMAIN event :
              event[i] = <<>> =>
                  /\ i \notin Range(invoked)
                  /\ \A w \in DOMAIN writes : writes[w].field # i
        /\ \A e \in DOMAIN errs : errs[e].value # <<>>
        /\ Len(errs) <= Len(invoked)

\* A returned empty mapping for a record with an empty convertInt field and
\* an empty convertContexts field.
C2_Witness ==
    /\ Returned
    /\ ret = Ok(EmptyMap)
    /\ \E i, j \in DOMAIN event :
          /\ event[i] = <<>> /\ knownFields[i] = <<KeyX, "convertInt">>
          /\ event[j] = <<>> /\ knownFields[j] = <<KeyC, "convertContexts">>

WellFormedEntry(t) == Len(t) = 2 /\ t[2] \in converters

\* The fields whose converter fails on their non-empty value
ConverterFails(i) ==
    /\ event[i] # <<>>
    /\ WellFormedEntry(knownFields[i])
    /\ \E r \in Convert(knownFields[i][2], knownFields[i][1], event[i]) : ~r.ok
FailingFields == SelectSeq([i \in 1..Len(event) |-> i], ConverterFails)
ExpectedMessages ==
    [n \in 1..Len(FailingFields) |->
        [key |-> knownFields[FailingFields[n]][1],
         value |-> event[FailingFields[n]],
         err |-> (CHOOSE r \in Convert(knownFields[FailingFields[n]][2],
                                       knownFields[FailingFields[n]][1],
                                       event[FailingFields[n]]) : ~r.ok).err]]

\* C3: for a record whose count matches, Transform returns an error exactly
\* when the converter of some non-empty field fails, and that error then
\* holds one message per failing field, in definition order, each with the
\* field's key and raw value; otherwise it returns the mapping.
C3_AggregatesAllFailures ==
    (Returned /\ CountsMatch) =>
        IF Len(FailingFields) > 0
        THEN ret = Err([kind |-> "Joined", messages |-> ExpectedMessages])
        ELSE ret.ok

\* C5: every call of Transform ends with a mapping or an error value.
C5_AlwaysReturns == Returned => (ret.ok \/ IsErr(ret))

GeoFieldsSet ==
    /\ Len(event) > LongitudeIndex
    /\ event[LatitudeIndex + 1] # <<>>
    /\ event[LongitudeIndex + 1] # <<>>
GeoLocationValue ==
    GoString(event[LatitudeIndex + 1] \o <<Ch(",")>> \o event[LongitudeIndex + 1])

\* C4 as stated: a mapping returned with the flag set and latitude and
\* longitude both non-empty has geo_location = "<lat>,<lon>", and a mapping
\* returned otherwise has no geo_location key.
C4_GeoLocationAsStated ==
    (Returned /\ ret.ok) =>
        IF arg.flag /\ GeoFieldsSet
        THEN /\ GeoLocationKey \in DOMAIN ret.val
             /\ ret.val[GeoLocationKey] = GeoLocationValue
        ELSE GeoLocationKey \notin DOMAIN ret.val

NoFieldKeyedGeoLocation ==
    \A i \in DOMAIN event : event[i] # <<>> => knownFields[i][1] # GeoLocationKey

\* C4, amended: when Transform returns a mapping and no definition entry with
\* a non-empty raw value has the key geo_location, the mapping has
\* geo_location = "<lat>,<lon>" if the flag is set and both fields are
\* non-empty, and has no geo_location key otherwise.
C4_GeoLocation ==
    (Returned /\ ret.ok /\ NoFieldKeyedGeoLocation) =>
        IF arg.flag /\ GeoFieldsSet
        THEN /\ GeoLocationKey \in DOMAIN ret.val
             /\ ret.val[GeoLocationKey] = GeoLocationValue
        ELSE GeoLocationKey \notin DOMAIN ret.val

\* A returned mapping with geo_location = "1.5,2" from the two raw fields.
C4_Witness ==
    /\ Returned /\ ret.ok /\ NoFieldKeyedGeoLocation
    /\ arg.flag /\ GeoFieldsSet
    /\ ret.val[GeoLocationKey] = GoString(Tokens(<<"1", ".", "5", ",", "2">>))

LastWrite(k) ==
    CHOOSE i \in DOMAIN writes :
        /\ writes[i].key = k
        /\ \A j \in DOMAIN writes : writes[j].key = k => j <= i

\* C9: a returned mapping has exactly the keys written, each with the value
\* of the last write to it, the writes being those of the geolocation
\* synthesis first and then of the fields in definition order.
C9_LastWriteWins ==
    (Returned /\ ret.ok) =>
        /\ DOMAIN ret.val = {writes[i].key : i \in DOMAIN writes}
        /\ \A k \in DOMAIN ret.val : ret.val[k] = writes[LastWrite(k)].val
        /\ \A i, j \in DOMAIN writes : i < j => writes[i].field <= writes[j].field

\* Under the table of the source, the name produced by the contexts column
\* and again by derived_contexts holds the payloads of derived_contexts alone.
C9_Witness ==
    /\ Returned /\ ret.ok
    /\ knownFields = EnrichedEventFieldTypes
    /\ \E i, j \in DOMAIN writes :
          /\ writes[i].field = ContextsColumn
          /\ writes[j].field = DerivedContextsColumn
          /\ writes[i].key = writes[j].key
          /\ writes[i].val = GoList(<<JNum(1), JNum(2)>>)
          /\ ret.val[writes[i].key] = GoList(<<JNum(9)>>)

\* C10: a second run of Transform on the same arguments ends as the first
\* did, with the same mapping, the same error or the same abort, and the
\* pairs a field's converter returns have pairwise distinct keys.
C10_Deterministic ==
    /\ (Returned /\ runs = 2) => ret = prev[1]
    /\ InTransform =>
          \A i, j \in DOMAIN writes :
              (i # j /\ writes[i].field = writes[j].field) =>
                  writes[i].key # writes[j].key

\* A second run that returned a mapping after a contexts field of two
\* canonical names, which parseContexts returns in either order.
C10_Witness ==
    /\ Returned /\ runs = 2 /\ ret.ok
    /\ \E i \in DOMAIN event :
          /\ knownFields[i][2] = "convertContexts"
          /\ Cardinality(parseContexts(event[i])) > 1
          /\ \E a, b \in DOMAIN writes :
                a < b /\ writes[a].field = i /\ writes[b].field = i

---------------------------------------------------------------------------
(* Properties of the shredder                                              *)

\* The argument is the JSON text of an envelope: an object with a schema
\* string and a data list of objects, each with a schema string that the
\* grammar accepts.
WellFormedEnvelope(value) ==
    /\ Len(value) = 1 /\ value[1].t = "json"
    /\ value[1].doc.t = "obj"
    /\ DOMAIN value[1].doc.f = {"schema", "data"}
    /\ value[1].doc.f.schema.t = "str"
    /\ value[1].doc.f.data.t = "arr"
    /\ \A i \in DOMAIN value[1].doc.f.data.a :
          /\ value[1].doc.f.data.a[i].t = "obj"
          /\ DOMAIN value[1].doc.f.data.a[i].f = {"schema", "data"}
          /\ value[1].doc.f.data.a[i].f.schema.t = "str"
          /\ extractSchema(value[1].doc.f.data.a[i].f.schema.s).ok
EnvelopeEntries(value) == value[1].doc.f.data.a
CanonicalName(entry) == fixSchema(ContextsPrefix, entry.f.schema.s).val
PayloadsNamed(entries, name) ==
    SelectSeq([i \in 1..Len(entries) |-> i],
              LAMBDA i : CanonicalName(entries[i]) = name)

\* C6: on a well-formed envelope whose schemas are all valid, parseContexts
\* returns one pair per distinct canonical name, and the sequence of a name is
\* the payloads of the entries of that name, each once, in envelope order.
C6_GroupsByCanonicalName ==
    (op = "parseContexts" /\ WellFormedEnvelope(arg)) =>
        /\ ret.ok
        /\ \A i, j \in DOMAIN ret.val : i # j => ret.val[i][1] # ret.val[j][1]
        /\ {ret.val[i][1] : i \in DOMAIN ret.val}
              = {CanonicalName(EnvelopeEntries(arg)[n]) : n \in DOMAIN EnvelopeEntries(arg)}
        /\ \A i \in DOMAIN ret.val :
              ret.val[i][2] =
                  GoList([n \in 1..Len(PayloadsNamed(EnvelopeEntries(arg), ret.val[i][1])) |->
                            EnvelopeEntries(arg)[
                                PayloadsNamed(EnvelopeEntries(arg), ret.val[i][1])[n]].f.data])

\* Three entries, the first and the last of one canonical name: two pairs,
\* the sequence of that name holding both payloads in envelope order.
C6_Witness ==
    /\ op = "parseContexts" /\ WellFormedEnvelope(arg)
    /\ Len(EnvelopeEntries(arg)) = 3
    /\ Len(ret.val) = 2
    /\ \E i \in DOMAIN ret.val : ret.val[i][2] = GoList(<<JNum(2), JNum(1)>>)

\* The argument is JSON text that decodes into an Unstruct: null, or an
\* object whose data is absent, null, or an object whose schema is absent,
\* null or a string.
DecodableUnstruct(value) ==
    /\ Len(value) = 1 /\ value[1].t = "json"
    /\ \/ value[1].doc.t = "null"
       \/ /\ value[1].doc.t = "obj"
          /\ \/ "data" \notin DOMAIN value[1].doc.f
             \/ value[1].doc.f.data.t = "null"
             \/ /\ value[1].doc.f.data.t = "obj"
                /\ \/ "schema" \notin DOMAIN value[1].doc.f.data.f
                   \/ value[1].doc.f.data.f.schema.t \in {"null", "str"}
HasInner(value) ==
    /\ value[1].doc.t = "obj"
    /\ "data" \in DOMAIN value[1].doc.f
    /\ value[1].doc.f.data.t = "obj"
InnerDataPresent(value) ==
    /\ HasInner(value)
    /\ "data" \in DOMAIN value[1].doc.f.data.f
    /\ value[1].doc.f.data.f.data.t # "null"
InnerSchema(value) ==
    IF /\ HasInner(value)
       /\ "schema" \in DOMAIN value[1].doc.f.data.f
       /\ value[1].doc.f.data.f.schema.t = "str"
    THEN value[1].doc.f.data.f.schema.s
    ELSE <<>>

\* C7 as stated: inner data absent or null gives the missing-inner-data
\* error; inner data present gives one pair, named with the prefix
\* unstruct_event, holding the inner data.
C7_UnstructAsStated ==
    (op = "parseUnstruct" /\ DecodableUnstruct(arg)) =>
        IF ~InnerDataPresent(arg)
        THEN ret = MissingInnerData
        ELSE /\ ret.ok
             /\ Len(ret.val) = 1
             /\ HasPrefix(ret.val[1][1], UnstructPrefix \o <<"_">>)
             /\ ret.val[1][2] = arg[1].doc.f.data.f.data

\* C7, amended: inner data absent or null gives the missing-inner-data error
\* whatever the inner schema; inner data present and the inner schema valid
\* gives the one pair; inner data present and the inner schema not valid gives
\* the schema parser's error.
C7_Unstruct ==
    (op = "parseUnstruct" /\ DecodableUnstruct(arg)) =>
        IF ~InnerDataPresent(arg) THEN ret = MissingInnerData
        ELSE IF extractSchema(InnerSchema(arg)).ok
        THEN /\ ret.ok
             /\ Len(ret.val) = 1
             /\ HasPrefix(ret.val[1][1], UnstructPrefix \o <<"_">>)
             /\ ret.val[1][1] = fixSchema(UnstructPrefix, InnerSchema(arg)).val
             /\ ret.val[1][2] = arg[1].doc.f.data.f.data
        ELSE ret = extractSchema(InnerSchema(arg))

\* The missing-inner-data error for an inner object with a schema that is
\* not valid and no data.
C7_Witness ==
    /\ op = "parseUnstruct" /\ DecodableUnstruct(arg)
    /\ HasInner(arg)
    /\ ~InnerDataPresent(arg)
    /\ InnerSchema(arg) = SchemaBad
    /\ ret = MissingInnerData

---------------------------------------------------------------------------
(* Properties of fixSchema                                                 *)

GrammarAccepts(in) ==
    /\ in.proto = Protocol
    /\ Len(in.vendor) >= 1 /\ AllVendorClass(in.vendor)
    /\ Len(in.name) >= 1 /\ AllNameClass(in.name)
    /\ Len(in.format) >= 1 /\ AllNameClass(in.format)
    /\ Len(in.version) = 3
    /\ PositiveNumeral(in.version[1])
    /\ Numeral(in.version[2])
    /\ Numeral(in.version[3])

\* An underscore before every capital that follows a character that is
\* neither a capital nor an underscore, then lower case.
SnakeAt(name, i) ==
    IF i > 1 /\ IsUpper(name[i]) /\ ~IsUpper(name[i - 1]) /\ name[i - 1] # "_"
    THEN <<"_", ToLowerChar(name[i])>>
    ELSE <<ToLowerChar(name[i])>>
RECURSIVE SnakeUpTo(_, _)
SnakeUpTo(name, n) == IF n = 0 THEN <<>> ELSE SnakeUpTo(name, n - 1) \o SnakeAt(name, n)

\* C8: for a URI of the grammar, fixSchema returns prefix, snake-cased vendor,
\* snake-cased name and model joined by "_"; for any other it returns the
\* parser's error, which carries the URI, and no name.
C8_FieldName ==
    (op = "fixSchema") =>
        IF GrammarAccepts(arg)
        THEN ret = Ok(arg.prefix \o <<"_">>
                      \o [i \in 1..Len(arg.vendor) |->
                            IF arg.vendor[i] = "." THEN "_"
                            ELSE ToLowerChar(arg.vendor[i])]
                      \o <<"_">> \o SnakeUpTo(arg.name, Len(arg.name))
                      \o <<"_">> \o arg.version[1])
        ELSE ret = Err([kind |-> "SchemaDoesNotConform", uri |-> arg.uri])

\* The name "aBaB", of two boundaries, under version 10-2-7: a_ba_b and 10.
C8_Witness ==
    /\ op = "fixSchema"
    /\ arg.name = <<"a", "B", "a", "B">>
    /\ arg.version = << <<"1","0">>, <<"2">>, <<"7">> >>
    /\ ret = Ok(arg.prefix \o <<"_","c","_","a","_","a","_","b","a","_","b","_","1","0">>)

=============================================================================
